---- MODULE Spec2Model ----
(***************************************************************************)
(* Query extraction of gatsby (file-parser: parseToAst, findGraphQLTags,   *)
(* FileParser.parseFile / parseFiles and the process-wide cache).          *)
(*                                                                         *)
(* Source text is abstracted to a sequence of one-character tokens; the    *)
(* offset of a token in the sequence (0-based, as Babel's node.start) is   *)
(* the source offset of the construct it stands for:                       *)
(*   "a"  a statement or expression without the tag, e.g. `1`              *)
(*   "y"  syntax of a dialect the base parser cannot read                  *)
(*   "E"  `export` in front of the declaration that follows                *)
(*   "S"  <StaticQuery query={ EXPR } />      (EXPR is the next token)     *)
(*   "H"  useStaticQuery( EXPR ), useStaticQuery imported from gatsby      *)
(*   "V"  const Q = EXPR                                                   *)
(*   "d"  let Q            (a declarator without initializer)              *)
(*   "s"  <StaticQuery query={Q} />                                        *)
(*   "h"  useStaticQuery(Q)                                                *)
(*   "t"  graphql`{q}`     tag imported from gatsby, one anonymous query   *)
(*   "m"  graphql`N q`     imported tag, a query named N and an anonymous  *)
(*   "g"  graphql`{q}`     the global (not imported) tag                   *)
(*   "o"  other`...`       a template with another tag                     *)
(*   "x"  graphql`${..}`   a template getGraphQLTag throws on              *)
(* File paths are character sequences too; "/" separates path segments.    *)
(***************************************************************************)
EXTENDS Integers, Sequences, FiniteSets, TLC

MaxTextLen == 4

Tokens == {"a", "y", "E", "S", "H", "V", "d", "s", "h", "t", "m", "g", "o", "x"}

TemplateTokens == {"t", "m", "g", "o", "x"}

ExprTokens == TemplateTokens \cup {"a"}

\* the tokens whose text holds the characters `graphql`
TagTokens == {"t", "m", "g", "x"}

RECURSIVE SeqsUpTo(_, _)
SeqsUpTo(S, n) ==
  IF n = 0 THEN {<<>>}
  ELSE LET shorter == SeqsUpTo(S, n - 1)
       IN shorter \cup {Append(q, c) : q \in {r \in shorter : Len(r) = n - 1}, c \in S}

Texts == SeqsUpTo(Tokens, MaxTextLen)

Range(q) == {q[i] : i \in 1..Len(q)}

(***************************************************************************)
(* Reports and notifications: one record per call of report.* or of a      *)
(* bound action creator, in the order the code makes them.                 *)
(***************************************************************************)
Note(type, file, var, usage) ==
  [type |-> type, file |-> file, var |-> var, usage |-> usage]

ReportError(file) == Note("report.error", file, "", "")

QueryExtractionGraphQLError(file) == Note("queryExtractionGraphQLError", file, "", "")

QueryExtractionBabelError(file) == Note("queryExtractionBabelError", file, "", "")

QueryExtractedBabelSuccess(file) == Note("queryExtractedBabelSuccess", file, "", "")

warnForUnknownQueryVariable(varName, file, usageFunction) ==
  Note("warn.unknownQueryVariable", file, varName, usageFunction)

warnForGlobalTag(file) == Note("warn.globalTag", file, "", "")

(***************************************************************************)
(* babelParseToAst: the program is a list of statements.  A node records   *)
(* its type, whether an export declaration encloses it, its start offset,  *)
(* and the expression in its query attribute / argument / initializer with *)
(* that expression's start offset ("Q": the identifier Q, "none": absent). *)
(***************************************************************************)
Node(type, exported, start, expr, exprStart) ==
  [type |-> type, exported |-> exported, start |-> start,
   expr |-> expr, exprStart |-> exprStart]

ParseFailed == [ok |-> FALSE]

ParseStmt(toks, i) ==
  LET exported == toks[i] = "E"
      j == IF exported THEN i + 1 ELSE i
      Ok(node, next) == [ok |-> TRUE, node |-> node, next |-> next]
  IN IF j > Len(toks) THEN ParseFailed
     ELSE LET hd == toks[j]
              type == CASE hd \in {"S", "s"} -> "JSXElement"
                        [] hd \in {"H", "h"} -> "CallExpression"
                        [] hd \in {"V", "d"} -> "VariableDeclarator"
                        [] OTHER -> "ExpressionStatement"
          IN IF hd \in {"S", "H", "V"}
             THEN IF j + 1 <= Len(toks) /\ toks[j + 1] \in ExprTokens
                  THEN Ok(Node(type, exported, i - 1, toks[j + 1], j), j + 2)
                  ELSE ParseFailed
             ELSE IF hd \in {"s", "h"}
             THEN Ok(Node(type, exported, i - 1, "Q", j - 1), j + 1)
             ELSE IF hd = "d"
             THEN Ok(Node(type, exported, i - 1, "none", j - 1), j + 1)
             ELSE IF ~exported /\ hd \in ExprTokens
             THEN Ok(Node(type, FALSE, i - 1, hd, i - 1), i + 1)
             ELSE ParseFailed

RECURSIVE ParseFrom(_, _)
ParseFrom(toks, i) ==
  IF i > Len(toks) THEN [ok |-> TRUE, body |-> <<>>]
  ELSE LET r == ParseStmt(toks, i)
       IN IF ~r.ok THEN ParseFailed
          ELSE LET rest == ParseFrom(toks, r.next)
               IN IF ~rest.ok THEN ParseFailed
                  ELSE [ok |-> TRUE, body |-> <<r.node>> \o rest.body]

babelParseToAst(contents) == ParseFrom(contents, 1)

(***************************************************************************)
(* The preprocessSource hook.  A plugin is "id" (returns the contents as   *)
(* they are) or "strip" (transpiles the dialect away); apiRunnerNode       *)
(* returns the plugins' results in plugin order.                           *)
(***************************************************************************)
PluginConfigs == {<<>>, <<"strip">>, <<"id", "strip">>}

RECURSIVE StripDialect(_)
StripDialect(contents) ==
  IF contents = <<>> THEN <<>>
  ELSE IF Head(contents) = "y" THEN StripDialect(Tail(contents))
  ELSE <<Head(contents)>> \o StripDialect(Tail(contents))

apiRunnerNode(plugins, contents) ==
  [k \in 1..Len(plugins) |->
     IF plugins[k] = "strip" THEN StripDialect(contents) ELSE contents]

(***************************************************************************)
(* parseToAst: [ast, ok, log, nParse]; ok = FALSE is the `return null`.     *)
(* nParse counts the invocations of babelParseToAst.                       *)
(***************************************************************************)
RECURSIVE TryCandidates(_, _, _, _)
TryCandidates(filePath, transpiled, k, log) ==
  IF k > Len(transpiled)
  THEN [ok |-> FALSE, ast |-> <<>>, nParse |-> Len(transpiled),
        log |-> log \o <<ReportError(filePath), QueryExtractionGraphQLError(filePath)>>]
  ELSE LET tmp == babelParseToAst(transpiled[k])
       IN IF tmp.ok
          THEN [ok |-> TRUE, ast |-> tmp.body, nParse |-> k, log |-> log]
          ELSE TryCandidates(filePath, transpiled, k + 1,
                 log \o <<ReportError(filePath), QueryExtractionGraphQLError(filePath)>>)

parseToAst(filePath, fileStr, plugins) ==
  LET transpiled == apiRunnerNode(plugins, fileStr)
  IN IF Len(transpiled) > 0
     THEN TryCandidates(filePath, transpiled, 1, <<>>)
     ELSE LET tmp == babelParseToAst(fileStr)
          IN IF tmp.ok
             THEN [ok |-> TRUE, ast |-> tmp.body, nParse |-> 1, log |-> <<>>]
             ELSE [ok |-> FALSE, ast |-> <<>>, nParse |-> 1,
                   log |-> <<QueryExtractionBabelError(filePath), ReportError(filePath)>>]

(***************************************************************************)
(* lodash camelCase on the path alphabet: "/" breaks words, a lower-case   *)
(* letter followed by an upper-case one starts a new word, and the last    *)
(* letter of an upper-case run followed by a lower-case letter starts one; *)
(* the first word is lower-cased, the others capitalised.                  *)
(***************************************************************************)
IsUpper(c) == c \in {"E", "S", "H", "V", "A"}

IsLower(c) == c \in {"a", "y", "d", "s", "h", "t", "m", "g", "o", "x", "e", "v"}

LowerCase(c) ==
  CASE c = "E" -> "e" [] c = "S" -> "s" [] c = "H" -> "h" [] c = "V" -> "v"
    [] c = "A" -> "a" [] OTHER -> c

UpperCase(c) ==
  CASE c = "a" -> "A" [] c = "e" -> "E" [] c = "s" -> "S" [] c = "h" -> "H"
    [] c = "v" -> "V" [] OTHER -> c

\* the length of the longest prefix of str whose characters satisfy the test
RECURSIVE RunLen(_, _)
RunLen(str, upper) ==
  IF str = <<>> THEN 0
  ELSE IF (upper /\ IsUpper(Head(str))) \/ (~upper /\ IsLower(Head(str)))
  THEN 1 + RunLen(Tail(str), upper)
  ELSE 0

RECURSIVE Words(_)
Words(str) ==
  IF str = <<>> THEN <<>>
  ELSE IF IsLower(Head(str))
  THEN LET n == RunLen(str, FALSE)
       IN <<SubSeq(str, 1, n)>> \o Words(SubSeq(str, n + 1, Len(str)))
  ELSE IF IsUpper(Head(str))
  THEN LET u == RunLen(str, TRUE)
           rest == SubSeq(str, u + 1, Len(str))
           \* an upper-case run gives up its last letter to the lower-case word after it
           n == IF rest # <<>> /\ IsLower(Head(rest))
                THEN (IF u = 1 THEN 1 + RunLen(rest, FALSE) ELSE u - 1)
                ELSE u
       IN <<SubSeq(str, 1, n)>> \o Words(SubSeq(str, n + 1, Len(str)))
  ELSE Words(Tail(str))

Capitalize(word, first) ==
  [k \in 1..Len(word) |->
     IF k = 1 /\ ~first THEN UpperCase(word[k]) ELSE LowerCase(word[k])]

RECURSIVE JoinWords(_, _)
JoinWords(ws, first) ==
  IF ws = <<>> THEN <<>>
  ELSE Capitalize(Head(ws), first) \o JoinWords(Tail(ws), FALSE)

camelCase(str) == JoinWords(Words(str), TRUE)

\* the decimal digits of a number, as `${hash}` prints it
RECURSIVE Digits(_)
Digits(n) ==
  LET d == <<"0", "1", "2", "3", "4", "5", "6", "7", "8", "9">>[(n % 10) + 1]
  IN IF n < 10 THEN <<d>> ELSE Append(Digits(n \div 10), d)

(***************************************************************************)
(* getGraphQLTag (babel-plugin-remove-graphql-queries): the parsed         *)
(* template.  Every call parses the template afresh, so every call yields  *)
(* new definition objects.  name = <<>> is a definition without a name.    *)
(***************************************************************************)
murmurhash(text) == IF text = <<"q">> THEN 731 ELSE 94

getGraphQLTag(tok) ==
  LET Tag(isGlobal, text, defs) ==
        [throws |-> FALSE, hasAst |-> TRUE, isGlobal |-> isGlobal, text |-> text,
         hash |-> murmurhash(text), definitions |-> defs]
      Def(name, start) == [name |-> name, loc |-> start]
  IN CASE tok = "t" -> Tag(FALSE, <<"q">>, <<Def(<<>>, 0)>>)
       [] tok = "g" -> Tag(TRUE, <<"q">>, <<Def(<<>>, 0)>>)
       [] tok = "m" -> Tag(FALSE, <<"N", "q">>, <<Def(<<"N">>, 0), Def(<<>>, 1)>>)
       [] tok = "x" -> [throws |-> TRUE, hasAst |-> FALSE]
       [] OTHER -> [throws |-> FALSE, hasAst |-> FALSE]

(***************************************************************************)
(* generateQueryName: the name of the definition after the call.           *)
(***************************************************************************)
generateQueryName(def, hash, file) ==
  IF def.name = <<>> THEN camelCase(file) \o Digits(hash) ELSE def.name

\* a key made of the offset inside the template only
LocationKeyDefOnly(nodeStart, defStart) == <<defStart>>

\* documentLocations.set(def, `${node.start}-${def.loc.start}`): both numbers are
\* offsets >= 0, printed without a sign, so the string is the pair of the two
LocationKey(nodeStart, defStart) == <<nodeStart, defStart>>

(***************************************************************************)
(* A definition of the result.  locationKey is its documentLocations       *)
(* entry and tpl the start of the template it was parsed from (the         *)
(* definition itself only holds loc, its start in the template).  Page queries are pushed as getGraphQLTag made them: isStatic-   *)
(* Query, isHook, text, hash stay undefined ("undefined", <<>>, -1).       *)
(***************************************************************************)
StaticDef(def, tag, file, nodeStart, isHook) ==
  [name |-> generateQueryName(def, tag.hash, file), loc |-> def.loc,
   tpl |-> nodeStart, locationKey |-> LocationKey(nodeStart, def.loc),
   isStaticQuery |-> "true", isHook |-> IF isHook THEN "true" ELSE "false",
   text |-> tag.text, hash |-> tag.hash]

PageDef(def, tag, file, nodeStart) ==
  [name |-> generateQueryName(def, tag.hash, file), loc |-> def.loc,
   tpl |-> nodeStart, locationKey |-> LocationKey(nodeStart, def.loc),
   isStaticQuery |-> "undefined", isHook |-> "undefined",
   text |-> <<>>, hash |-> -1]

(***************************************************************************)
(* The traversal state: the queries pushed so far, the warnings made so    *)
(* far, and whether a visitor threw (nothing runs after a throw).          *)
(***************************************************************************)
Throw(acc) == [acc EXCEPT !.thrown = TRUE]

extractStaticQuery(acc, file, tok, nodeStart, isHook) ==
  LET tag == getGraphQLTag(tok)
  IN IF acc.thrown THEN acc
     ELSE IF tag.throws THEN Throw(acc)
     ELSE IF ~tag.hasAst THEN acc
     ELSE [acc EXCEPT
             !.log = IF tag.isGlobal THEN Append(@, warnForGlobalTag(file)) ELSE @,
             !.queries = @ \o [k \in 1..Len(tag.definitions) |->
                                 StaticDef(tag.definitions[k], tag, file, nodeStart, isHook)]]

extractPageQuery(acc, file, tok, nodeStart) ==
  LET tag == getGraphQLTag(tok)
  IN IF acc.thrown THEN acc
     ELSE IF tag.throws THEN Throw(acc)
     ELSE IF ~tag.hasAst THEN acc
     ELSE [acc EXCEPT
             !.log = IF tag.isGlobal THEN Append(@, warnForGlobalTag(file)) ELSE @,
             !.queries = @ \o [k \in 1..Len(tag.definitions) |->
                                 PageDef(tag.definitions[k], tag, file, nodeStart)]]

(***************************************************************************)
(* traverse(ast, {VariableDeclarator}) for an identifier: every declarator *)
(* of that name is looked at in source order.  Reading init.type of a      *)
(* declarator without initializer throws a TypeError.  `found` is set by   *)
(* the TaggedTemplateExpression visitor, whatever the template's tag.      *)
(* All declarators of the token language declare Q.                        *)
(***************************************************************************)
RECURSIVE FindDeclarators(_, _, _, _, _, _)
FindDeclarators(st, ast, k, file, varName, isHook) ==
  IF k > Len(ast) \/ st.acc.thrown THEN st
  ELSE LET n == ast[k]
       IN IF n.type = "VariableDeclarator" /\ varName = "Q"
          THEN IF n.expr = "none"
               THEN [st EXCEPT !.acc = Throw(@)]
               ELSE IF n.expr \in TemplateTokens
               THEN FindDeclarators(
                      [acc |-> extractStaticQuery(st.acc, file, n.expr, n.exprStart, isHook),
                       found |-> TRUE],
                      ast, k + 1, file, varName, isHook)
               ELSE FindDeclarators(st, ast, k + 1, file, varName, isHook)
          ELSE FindDeclarators(st, ast, k + 1, file, varName, isHook)

\* the Identifier visitor of the <StaticQuery> and useStaticQuery passes
\* st is the state when the traversal for the declarators is over
WarnUnlessFound(st, file, varName, usageFunction) ==
  IF st.acc.thrown \/ st.found THEN st.acc
  ELSE [st.acc EXCEPT
          !.log = Append(@, warnForUnknownQueryVariable(varName, file, usageFunction))]

VisitIdentifier(acc, ast, file, varName, isHook, usageFunction) ==
  IF acc.thrown \/ varName \in {"graphql", "useStaticQuery"} THEN acc
  ELSE WarnUnlessFound(
         FindDeclarators([acc |-> acc, found |-> FALSE], ast, 1, file, varName, isHook),
         file, varName, usageFunction)

\* the name of the tag identifier of a template
TagName(tok) == IF tok = "o" THEN "other" ELSE "graphql"

\* the traversal of a query attribute / of a call: the template first, then the
\* identifiers in it
VisitQuerySource(acc, ast, file, n, isHook, usageFunction) ==
  IF n.expr \in TemplateTokens
  THEN VisitIdentifier(extractStaticQuery(acc, file, n.expr, n.exprStart, isHook),
                       ast, file, TagName(n.expr), isHook, usageFunction)
  ELSE IF n.expr = "Q"
  THEN VisitIdentifier(acc, ast, file, "Q", isHook, usageFunction)
  ELSE acc

RECURSIVE StaticQueryPass(_, _, _, _)
StaticQueryPass(acc, ast, k, file) ==
  IF k > Len(ast) \/ acc.thrown THEN acc
  ELSE StaticQueryPass(
         IF ast[k].type = "JSXElement"
         THEN VisitQuerySource(acc, ast, file, ast[k], FALSE, "<StaticQuery>")
         ELSE acc,
         ast, k + 1, file)

RECURSIVE HookPass(_, _, _, _)
HookPass(acc, ast, k, file) ==
  IF k > Len(ast) \/ acc.thrown THEN acc
  ELSE HookPass(
         IF ast[k].type = "CallExpression"
         THEN VisitQuerySource(acc, ast, file, ast[k], TRUE, "useStaticQuery")
         ELSE acc,
         ast, k + 1, file)

RECURSIVE PagePass(_, _, _, _)
PagePass(acc, ast, k, file) ==
  IF k > Len(ast) \/ acc.thrown THEN acc
  ELSE PagePass(
         IF ast[k].exported /\ ast[k].expr \in TemplateTokens
         THEN extractPageQuery(acc, file, ast[k].expr, ast[k].exprStart)
         ELSE acc,
         ast, k + 1, file)

\* a deduplication that keeps the last of every key
RECURSIVE uniqByLast(_)
uniqByLast(queries) ==
  IF queries = <<>> THEN <<>>
  ELSE LET rest == uniqByLast(Tail(queries))
       IN IF \E k \in 2..Len(queries) : queries[k].locationKey = Head(queries).locationKey
          THEN rest
          ELSE <<Head(queries)>> \o rest

\* _.uniqBy(queries, q => documentLocations.get(q)): the first of every key, in order
RECURSIVE uniqBy(_)
uniqBy(queries) ==
  IF queries = <<>> THEN <<>>
  ELSE LET front == uniqBy(SubSeq(queries, 1, Len(queries) - 1))
           last == queries[Len(queries)]
       IN IF \E k \in 1..Len(front) : front[k].locationKey = last.locationKey
          THEN front
          ELSE Append(front, last)

(***************************************************************************)
(* findGraphQLTags(file, text):                                            *)
(*   rejected  the promise rejects (a visitor threw)                       *)
(*   queries   the resolved value, uniqueQueries ([] when there is no ast) *)
(*   located   the queries pushed by the three passes, before uniqBy       *)
(*   log       the reports, notifications and warnings made, in order      *)
(*   nParse    the invocations of babelParseToAst                          *)
(***************************************************************************)
\* the promise settles: acc is the traversal state after the three passes
Settle(parsed, acc) ==
  IF ~parsed.ok
  THEN [rejected |-> FALSE, queries |-> <<>>, located |-> <<>>,
        log |-> parsed.log, nParse |-> parsed.nParse]
  ELSE [rejected |-> acc.thrown,
        queries |-> IF acc.thrown THEN <<>> ELSE uniqBy(acc.queries),
        located |-> acc.queries, log |-> acc.log, nParse |-> parsed.nParse]

\* the three passes with the page pass first
TraversePageFirst(start, ast, file) ==
  HookPass(StaticQueryPass(PagePass(start, ast, 1, file), ast, 1, file), ast, 1, file)

\* the three passes over the ast, in the order of the code
Traverse(start, ast, file) ==
  PagePass(HookPass(StaticQueryPass(start, ast, 1, file), ast, 1, file), ast, 1, file)

\* what follows parseToAst; without an ast ([] resolved) the passes are not run
AfterParse(parsed, file) ==
  Settle(parsed,
         Traverse([queries |-> <<>>, log |-> parsed.log, thrown |-> FALSE],
                  parsed.ast, file))

findGraphQLTags(file, text, plugins) == AfterParse(parseToAst(file, text, plugins), file)

(***************************************************************************)
(* The file system, the cache and the calls in flight.                     *)
(***************************************************************************)
MaxCalls == 3

MaxEdits == 2

MaxBatches == 1

MaxBatchFiles == 2

\* two paths of which one extends the other, so that path + contents of one
\* file can spell path + contents of the other
Paths == {<<"/", "a">>, <<"/", "a", "E">>}

\* what fs.readFile rejects with when the file cannot be read
Unreadable == <<"ENOENT">>

\* the contents files take: without the tag; with the tag and no query; a page
\* query; a syntax error; a template that makes getGraphQLTag throw; a component
\* query in the dialect; a component query; an exported component with its query
SampleTexts ==
  {<<"a">>, <<"V", "t">>, <<"E", "V", "t">>, <<"E", "E", "V", "t">>, <<"S", "x">>,
   <<"y", "S", "t">>, <<"S", "t">>, <<"E", "S", "t">>}

(***************************************************************************)
(* db/index.js: saveState, its debounced form and the listeners of         *)
(* startAutosave.  The state of the module is one record:                  *)
(*   command, nDbs      gatsby_executing_command and the length of dbs     *)
(*   listening          startAutosave has registered its listeners         *)
(*   bootstrapFinished, saveInProgress   the two variables of the code     *)
(*   timer              the debounce timer is armed                        *)
(*   round, pending     the saves started so far, and the db.saveState     *)
(*                      promises not yet settled, as <<round, db>>         *)
(* and, for the claims, what has happened so far: emitted events, those    *)
(* heard before BOOTSTRAP_FINISHED was emitted (early),                    *)
(* bootstrapEmitted, the callers of the saves started (causes), dirty (an  *)
(* event was heard after bootstrap and no save has started since), the     *)
(* warnings reported, the kinds of failure caught, and the saveState calls *)
(* that returned at once.                                                  *)
(***************************************************************************)
MaxEvents == 3

Commands == {"develop", "build", ""}

EventTypes == {"BOOTSTRAP_FINISHED", "OTHER"}

ModuleLoaded(command, nDbs) ==
  [command |-> command, nDbs |-> nDbs, listening |-> FALSE,
   bootstrapFinished |-> FALSE, saveInProgress |-> FALSE, timer |-> FALSE,
   round |-> 0, pending |-> {}, emitted |-> 0, bootstrapEmitted |-> FALSE,
   early |-> 0, causes |-> {}, dirty |-> FALSE, warnings |-> 0, caught |-> {},
   skipped |-> 0]

\* saveState() up to its await.  thrower = 0: every db.saveState() is called and
\* returns its promise.  thrower = i: the call of db i throws; the dbs before it
\* have been called, the catch reports, and saveInProgress is reset at once.
saveState(d, cause, thrower) ==
  IF d.saveInProgress THEN [d EXCEPT !.skipped = @ + 1]
  ELSE IF thrower \in 1..d.nDbs
  THEN [d EXCEPT !.round = @ + 1,
                 !.pending = @ \cup {<<d.round + 1, i>> : i \in 1..(thrower - 1)},
                 !.causes = @ \cup {cause},
                 !.dirty = FALSE,
                 !.warnings = @ + 1,
                 !.caught = @ \cup {"throw"}]
  ELSE [d EXCEPT !.saveInProgress = TRUE,
                 !.round = @ + 1,
                 !.pending = @ \cup {<<d.round + 1, i>> : i \in 1..d.nDbs},
                 !.causes = @ \cup {cause},
                 !.dirty = FALSE]

\* _.debounce(saveState, 1000): a call arms the timer, or arms it anew
saveStateDebounced(d) == [d EXCEPT !.timer = TRUE]

\* the listener of BOOTSTRAP_FINISHED in develop (lines 38-41)
OnBootstrapFinishedDevelop(d, thrower) ==
  saveState([d EXCEPT !.bootstrapFinished = TRUE], "BOOTSTRAP_FINISHED", thrower)

\* a listener of every event that does not wait for the bootstrap
OnEveryEventEager(d) == saveStateDebounced(d)

\* the listener of every event in develop (lines 42-46)
OnEveryEvent(d) == IF d.bootstrapFinished THEN saveStateDebounced(d) ELSE d

\* the listener of BOOTSTRAP_FINISHED in build (lines 51-53)
OnBootstrapFinishedBuild(d, thrower) == saveState(d, "BOOTSTRAP_FINISHED", thrower)

\* emitter.emit(type): the listeners of the type in the order of their
\* registration, then the listeners of `*`
Dispatch(d, type, thrower) ==
  IF ~d.listening THEN d
  ELSE IF d.command = "develop"
  THEN OnEveryEvent(IF type = "BOOTSTRAP_FINISHED"
                    THEN OnBootstrapFinishedDevelop(d, thrower) ELSE d)
  ELSE IF d.command = "build" /\ type = "BOOTSTRAP_FINISHED"
  THEN OnBootstrapFinishedBuild(d, thrower)
  ELSE d

\* the event is noted before its listeners run
Noted(d, type) ==
  [d EXCEPT !.emitted = @ + 1,
            !.bootstrapEmitted = @ \/ type = "BOOTSTRAP_FINISHED",
            !.early = IF d.listening /\ ~d.bootstrapEmitted /\ type # "BOOTSTRAP_FINISHED"
                      THEN @ + 1 ELSE @,
            !.dirty = @ \/ (d.command = "develop" /\ d.listening /\ d.bootstrapFinished)]

\* a saveState without its try/catch: a rejection leaves saveInProgress set
SettledUncaught(d, p, ok) ==
  LET rest == d.pending \ {p}
  IN IF d.saveInProgress /\ p[1] = d.round /\ ok /\ ~\E q \in rest : q[1] = d.round
     THEN [d EXCEPT !.pending = rest, !.saveInProgress = FALSE]
     ELSE [d EXCEPT !.pending = rest]

\* saveState() after its await: a rejection is caught and reported, and
\* saveInProgress is reset; Promise.all rejects with the first rejection and
\* resolves when every promise of the round has resolved
Settled(d, p, ok) ==
  LET rest == d.pending \ {p}
  IN IF d.saveInProgress /\ p[1] = d.round
     THEN IF ~ok
          THEN [d EXCEPT !.pending = rest, !.saveInProgress = FALSE, !.warnings = @ + 1,
                         !.caught = @ \cup {"rejection"}]
          ELSE IF \E q \in rest : q[1] = d.round
          THEN [d EXCEPT !.pending = rest]
          ELSE [d EXCEPT !.pending = rest, !.saveInProgress = FALSE]
     ELSE [d EXCEPT !.pending = rest]

VARIABLES
  fs,        \* path -> contents, or Unreadable
  plugins,   \* the plugins that implement preprocessSource
  cache,     \* the module's `cache` object: hash -> astDefinitions
  calls,     \* the calls of parseFile made so far, finished or not
  batches,   \* the calls of parseFiles made so far
  edits,     \* the number of changes made to the file system
  tagRun,    \* one run of findGraphQLTags on its own
  db         \* the module db/index.js: its variables, listeners, timer and saves

vars == <<fs, plugins, cache, calls, batches, edits, tagRun, db>>

Null == [kind |-> "null", definitions |-> <<>>]

Document(astDefinitions) == [kind |-> "Document", definitions |-> astDefinitions]

\* a digest of the path alone
HashPathOnly(file, text) == file

\* crypto.createHash(`md5`).update(file).update(text).digest(`hex`): the digest
\* of the characters of file followed by those of text (md5 taken as injective)
Hash(file, text) == file \o text

\* a fast path taken for the empty text only
NoTraceEmptyOnly(text) == text = <<>>

\* text.indexOf(`graphql`) === -1
NoTrace(text) == \A i \in 1..Len(text) : text[i] \notin TagTokens

NewCall(file, batch) ==
  [file |-> file, batch |-> batch, pc |-> "readFile", text |-> <<>>, hash |-> <<>>,
   assigned |-> FALSE, astDefinitions |-> <<>>,
   result |-> Null, log |-> <<>>, nParse |-> 0, nPreprocess |-> 0,
   cacheReads |-> 0, cacheWrites |-> 0, fromCache |-> FALSE, sawReturned |-> {}]

Returned(c) == calls[c].pc \in {"returned", "collected"}

NoTagRun == [done |-> FALSE, file |-> <<>>, text |-> <<>>, plugins |-> <<>>,
             out |-> findGraphQLTags(<<>>, <<>>, <<>>)]

\* the state of the module after it is loaded
Loaded ==
  /\ plugins \in {<<>>, <<"id", "strip">>}
  /\ cache = <<>>
  /\ calls = <<>>
  /\ batches = <<>>
  /\ edits = 0
  /\ tagRun = NoTagRun
  /\ db = ModuleLoaded("", 1)

\* two files whose path + contents spell the same characters: a syntax error in
\* the one, a page query in the other
Init ==
  /\ fs = [p \in Paths |->
             IF p = <<"/", "a">> THEN <<"E", "E", "V", "t">> ELSE <<"E", "V", "t">>]
  /\ Loaded

BatchInit ==
  /\ fs \in [Paths -> SampleTexts \cup {Unreadable}]
  /\ Loaded

\* the user or a tool changes a file, or removes it
WriteFile(p, t) ==
  /\ edits < MaxEdits
  /\ t # fs[p]
  /\ fs' = [fs EXCEPT ![p] = t]
  /\ edits' = edits + 1
  /\ UNCHANGED <<plugins, cache, calls, batches, tagRun, db>>

\* a success branch that wraps whatever it got in a Document
FinishAlwaysDocument(call, astDefinitions) ==
  [call EXCEPT
     !.pc = "returned",
     !.assigned = TRUE,
     !.astDefinitions = astDefinitions,
     !.log = IF Len(astDefinitions) > 0
             THEN Append(@, QueryExtractedBabelSuccess(call.file)) ELSE @,
     !.result = [kind |-> "Document", definitions |-> astDefinitions]]

\* a success branch that signals success only for what it extracted itself
FinishFreshSuccess(call, astDefinitions) ==
  [call EXCEPT
     !.pc = "returned",
     !.assigned = TRUE,
     !.astDefinitions = astDefinitions,
     !.log = IF Len(astDefinitions) > 0 /\ ~call.fromCache
             THEN Append(@, QueryExtractedBabelSuccess(call.file)) ELSE @,
     !.result = IF Len(astDefinitions) > 0
                THEN [kind |-> "Document", definitions |-> astDefinitions]
                ELSE [kind |-> "null", definitions |-> <<>>]]

\* the success branch of parseFile (lines 418-435), astDefinitions assigned
Finish(call, astDefinitions) ==
  [call EXCEPT
     !.pc = "returned",
     !.assigned = TRUE,
     !.astDefinitions = astDefinitions,
     !.log = IF Len(astDefinitions) > 0
             THEN Append(@, QueryExtractedBabelSuccess(call.file)) ELSE @,
     !.result = IF Len(astDefinitions) > 0 THEN Document(astDefinitions) ELSE Null]

\* a catch of fs.readFile that reports and returns without the notification
ReadFailedSilent(call) ==
  [call EXCEPT
     !.pc = "returned",
     !.text = Unreadable,
     !.log = @ \o <<ReportError(call.file)>>,
     !.result = Null]

\* the catch of fs.readFile (lines 402-408)
ReadFailed(call) ==
  [call EXCEPT
     !.pc = "returned",
     !.text = Unreadable,
     !.log = @ \o <<ReportError(call.file), QueryExtractionGraphQLError(call.file)>>,
     !.result = Null]

\* the catch around findGraphQLTags (lines 436-445)
ExtractionFailed(call) ==
  [call EXCEPT
     !.pc = "returned",
     !.log = @ \o <<ReportError(call.file), QueryExtractionGraphQLError(call.file)>>,
     !.result = Null]

\* cache[hash] is truthy: any array, the empty one too
Cached(store, hash) == hash \in DOMAIN store

\* parseFile from the moment fs.readFile settles to its next await or its return
AfterRead(c0) ==
  LET call == [c0 EXCEPT !.sawReturned = {d \in 1..Len(calls) : Returned(d)}]
      text == fs[call.file]
      hash == Hash(call.file, text)
  IN IF text = Unreadable THEN ReadFailed(call)
     ELSE IF NoTrace(text) THEN [call EXCEPT !.pc = "returned", !.text = text]
     ELSE IF Cached(cache, hash)
     THEN Finish([call EXCEPT !.text = text, !.hash = hash, !.cacheReads = 1,
                              !.fromCache = TRUE],
                 cache[hash])
     ELSE [call EXCEPT !.pc = "findGraphQLTags", !.text = text, !.hash = hash,
                       !.cacheReads = 1]

\* parseFile(file) is called on its own.  Nothing happens in the call between its
\* start and the moment fs.readFile settles, and no other call can tell whether it
\* has started, so the call and the end of the read are one step.
ParseFile(p) ==
  /\ Len(calls) < MaxCalls
  /\ calls' = Append(calls, AfterRead(NewCall(p, 0)))
  /\ UNCHANGED <<fs, plugins, cache, batches, edits, tagRun, db>>

\* fs.readFile settles in a call that parseFiles made
ReadFile(c) ==
  /\ c \in 1..Len(calls)
  /\ calls[c].pc = "readFile"
  /\ calls' = [calls EXCEPT ![c] = AfterRead(calls[c])]
  /\ UNCHANGED <<fs, plugins, cache, batches, edits, tagRun, db>>

\* a store that adds to the entry it finds under the key
StoreAppending(store, hash, astDefinitions) ==
  [h \in DOMAIN store \cup {hash} |->
     IF h = hash
     THEN (IF hash \in DOMAIN store THEN store[hash] ELSE <<>>) \o astDefinitions
     ELSE store[h]]

\* the store of line 419: cache[hash] = <the value findGraphQLTags resolved with>
Store(store, hash, astDefinitions) ==
  [h \in DOMAIN store \cup {hash} |-> IF h = hash THEN astDefinitions ELSE store[h]]

\* preprocessSource settles; findGraphQLTags parses and traverses without another
\* await, and the promise chain hands its result to parseFile.  The steps from
\* the traversal to the store touch nothing another call reads, so they are one step.
\* the call once findGraphQLTags has settled with `found`
Ran(call, found) ==
  [call EXCEPT !.log = @ \o found.log, !.nParse = @ + found.nParse,
               !.nPreprocess = @ + 1]

\* the await of line 419 resumes: the catch on a rejection, else the store and
\* the success branch
Resume(c, found) ==
  IF found.rejected
  THEN /\ calls' = [calls EXCEPT ![c] = ExtractionFailed(Ran(calls[c], found))]
       /\ cache' = cache
  ELSE /\ calls' = [calls EXCEPT ![c] =
                      Finish([Ran(calls[c], found) EXCEPT !.cacheWrites = @ + 1],
                             found.queries)]
       /\ cache' = Store(cache, calls[c].hash, found.queries)

FindTags(c) ==
  /\ c \in 1..Len(calls)
  /\ calls[c].pc = "findGraphQLTags"
  /\ Resume(c, findGraphQLTags(calls[c].file, calls[c].text, plugins))
  /\ UNCHANGED <<fs, plugins, batches, edits, tagRun, db>>

(***************************************************************************)
(* parseFiles(files): a parseFile call per file, all started at once; the  *)
(* `.then` of each call enters its document; Promise.all resolves with the *)
(* map once every `.then` has run.                                         *)
(***************************************************************************)
FileLists == SeqsUpTo(Paths, MaxBatchFiles)

ParseFiles(files) ==
  /\ Len(batches) < MaxBatches
  /\ Len(calls) + Len(files) <= MaxCalls
  /\ calls' = calls \o [k \in 1..Len(files) |-> NewCall(files[k], Len(batches) + 1)]
  /\ batches' = Append(batches,
       [files |-> files, calls |-> [k \in 1..Len(files) |-> Len(calls) + k],
        documents |-> <<>>, resolved |-> FALSE])
  /\ UNCHANGED <<fs, plugins, cache, edits, tagRun, db>>

\* doc => { if (!doc) return; documents.set(file, doc) }
Collect(c) ==
  /\ c \in 1..Len(calls)
  /\ calls[c].batch # 0
  /\ calls[c].pc = "returned"
  /\ calls' = [calls EXCEPT ![c].pc = "collected"]
  /\ batches' = [batches EXCEPT ![calls[c].batch].documents =
       IF calls[c].result = Null THEN @
       ELSE [f \in DOMAIN @ \cup {calls[c].file} |->
               IF f = calls[c].file THEN calls[c].result ELSE @[f]]]
  /\ UNCHANGED <<fs, plugins, cache, edits, tagRun, db>>

\* Promise.all(...).then(() => documents)
Resolve(b) ==
  /\ b \in 1..Len(batches)
  /\ ~batches[b].resolved
  /\ \A k \in 1..Len(batches[b].calls) : calls[batches[b].calls[k]].pc = "collected"
  /\ batches' = [batches EXCEPT ![b].resolved = TRUE]
  /\ UNCHANGED <<fs, plugins, cache, calls, edits, tagRun, db>>

Next ==
  \/ \E p \in Paths, t \in SampleTexts \cup {Unreadable} : WriteFile(p, t)
  \/ \E p \in Paths : ParseFile(p)
  \/ \E c \in 1..MaxCalls : FindTags(c)

Spec == Init /\ [][Next]_vars

(***************************************************************************)
(* parseFiles next to calls of parseFile, over files that do not change    *)
(* while the calls run.                                                    *)
(***************************************************************************)
BatchNext ==
  \/ \E p \in Paths : ParseFile(p)
  \/ \E c \in 1..MaxCalls : FindTags(c)
  \/ \E files \in FileLists : ParseFiles(files)
  \/ \E c \in 1..MaxCalls : ReadFile(c)
  \/ \E c \in 1..MaxCalls : Collect(c)
  \/ \E b \in 1..MaxBatches : Resolve(b)

SpecBatch == BatchInit /\ [][BatchNext]_vars

(***************************************************************************)
(* findGraphQLTags on its own, on every text of the token language.        *)
(***************************************************************************)
\* longer files: a hook with its query and an exported page query; the three
\* forms in one file, in the order of the passes and against it
ScenarioTexts ==
  {<<"H", "t", "E", "V", "t">>,
   <<"S", "t", "H", "t", "E", "V", "t">>,
   <<"E", "V", "t", "H", "t", "S", "t">>}

TagsInit ==
  /\ fs = [p \in Paths |-> Unreadable]
  /\ plugins = <<>>
  /\ cache = <<>>
  /\ calls = <<>>
  /\ batches = <<>>
  /\ edits = 0
  /\ db = ModuleLoaded("", 1)
  /\ \E text \in Texts \cup ScenarioTexts, pl \in PluginConfigs :
       tagRun = [NoTagRun EXCEPT !.file = <<"/", "a", "E">>, !.text = text, !.plugins = pl]

RunTags ==
  /\ ~tagRun.done
  /\ tagRun' = [tagRun EXCEPT !.done = TRUE,
                              !.out = findGraphQLTags(tagRun.file, tagRun.text, tagRun.plugins)]
  /\ UNCHANGED <<fs, plugins, cache, calls, batches, edits, db>>

TagsNext == RunTags

SpecTags == TagsInit /\ [][TagsNext]_vars

(***************************************************************************)
(* db/index.js on its own: startAutosave, the events of the emitter, the   *)
(* debounce timer and the db.saveState promises.                           *)
(***************************************************************************)
SaveInit ==
  /\ fs = [p \in Paths |-> Unreadable]
  /\ plugins = <<>>
  /\ cache = <<>>
  /\ calls = <<>>
  /\ batches = <<>>
  /\ edits = 0
  /\ tagRun = NoTagRun
  /\ \E command \in Commands, nDbs \in {1, 2} : db = ModuleLoaded(command, nDbs)

startAutosave ==
  /\ ~db.listening
  /\ db' = [db EXCEPT !.listening = TRUE]
  /\ UNCHANGED <<fs, plugins, cache, calls, batches, edits, tagRun>>

Emit(type, thrower) ==
  /\ db.emitted < MaxEvents
  /\ db' = Dispatch(Noted(db, type), type, thrower)
  /\ UNCHANGED <<fs, plugins, cache, calls, batches, edits, tagRun>>

\* a second has gone by since the last call of saveStateDebounced
TimerFires(thrower) ==
  /\ db.timer
  /\ db' = saveState([db EXCEPT !.timer = FALSE], "debounce", thrower)
  /\ UNCHANGED <<fs, plugins, cache, calls, batches, edits, tagRun>>

\* a db.saveState() promise settles and the continuation of saveState runs
DbSettles(p, ok) ==
  /\ p \in db.pending
  /\ db' = Settled(db, p, ok)
  /\ UNCHANGED <<fs, plugins, cache, calls, batches, edits, tagRun>>

Promises == (1..(2 * MaxEvents)) \X {1, 2}

\* the db whose saveState() throws in a call of saveState, 0 for none
Throwers == 0..2

SaveNext ==
  \/ startAutosave
  \/ \E type \in EventTypes, thrower \in Throwers : Emit(type, thrower)
  \/ \E thrower \in Throwers : TimerFires(thrower)
  \/ \E p \in Promises, ok \in BOOLEAN : DbSettles(p, ok)

SpecSave == SaveInit /\ [][SaveNext]_vars

\* timers that are due fire, and the dbs answer
SpecSaveFair ==
  /\ SaveInit
  /\ [][SaveNext]_vars
  /\ WF_vars(\E thrower \in Throwers : TimerFires(thrower))
  /\ WF_vars(\E p \in Promises, ok \in BOOLEAN : DbSettles(p, ok))

(***************************************************************************)
(* Claims about parseFile and the cache (Spec).                            *)
(***************************************************************************)
CallIds == 1..Len(calls)

\* the text of a call was read and holds / does not hold the tag identifier
HasTag(c) == calls[c].text # Unreadable /\ Range(calls[c].text) \cap TagTokens # {}

LacksTag(c) == calls[c].text # Unreadable /\ Range(calls[c].text) \cap TagTokens = {}

\* call c read its file after call d had returned
After(c, d) == d \in calls[c].sawReturned

IsFailure(n) == n.type \in {"queryExtractionGraphQLError", "queryExtractionBabelError"}

IsSuccess(n) == n.type = "queryExtractedBabelSuccess"

\* C1: a call on a file whose text lacks the tag identifier returns null and has
\* invoked neither the preprocessors nor the parser, has neither read nor written
\* the cache, and has reported nothing, whatever the cache holds.
C1_NoTraceReturnsNull ==
  \A c \in CallIds :
    (Returned(c) /\ LacksTag(c)) =>
      /\ calls[c].result = Null
      /\ calls[c].nParse = 0
      /\ calls[c].nPreprocess = 0
      /\ calls[c].cacheReads = 0
      /\ calls[c].cacheWrites = 0
      /\ calls[c].log = <<>>

\* a call on a file without the tag, made when the cache held an entry
C1_Witness ==
  \E c, d \in CallIds :
    /\ Returned(c) /\ LacksTag(c)
    /\ After(c, d) /\ calls[d].cacheWrites = 1
    /\ calls[c].result = Null

\* C2: of two calls on the same path with the same contents, the second made after
\* the first returned a Document, the second returns the same Document and is
\* served from the cache, without preprocessing or parsing.
C2_SecondCallServedFromCache ==
  \A c, d \in CallIds :
    (/\ Returned(c) /\ Returned(d) /\ After(d, c)
     /\ calls[c].file = calls[d].file /\ calls[c].text = calls[d].text
     /\ calls[c].result # Null) =>
      /\ calls[d].result = calls[c].result
      /\ calls[d].fromCache
      /\ calls[d].nParse = 0
      /\ calls[d].nPreprocess = 0

\* C3 as stated, in a process that only ever parses one path, one call after the
\* other: when the contents of the file changed between a call and the next (both
\* versions hold the tag), the next call has another cache key and runs the
\* extraction again.
C3_ChangedContentsReRun ==
  \A c, d \in CallIds :
    (/\ \A e \in CallIds : calls[e].file = calls[c].file
     /\ \A e \in CallIds \ {c, d} : After(c, e)
     /\ Returned(c) /\ Returned(d) /\ After(d, c)
     /\ HasTag(c) /\ HasTag(d) /\ calls[c].text # calls[d].text) =>
      /\ calls[d].hash # calls[c].hash
      /\ ~calls[d].fromCache
      /\ calls[d].nPreprocess = 1

\* C3, amended: after the contents of a path changed (both versions hold the
\* tag), the later call has another cache key than the earlier one; it runs the
\* extraction on the new contents unless an earlier call already stored an entry
\* under the new key, and then it is served that entry.
C3_ChangedContentsNewKey ==
  \A c, d \in CallIds :
    (/\ Returned(c) /\ Returned(d) /\ After(d, c)
     /\ calls[c].file = calls[d].file
     /\ HasTag(c) /\ HasTag(d) /\ calls[c].text # calls[d].text) =>
      /\ calls[d].hash # calls[c].hash
      /\ calls[d].hash = calls[d].file \o calls[d].text
      /\ IF \E e \in calls[d].sawReturned :
              calls[e].cacheWrites = 1 /\ calls[e].hash = calls[d].hash
         THEN calls[d].fromCache /\ calls[d].nPreprocess = 0
         ELSE ~calls[d].fromCache /\ calls[d].nPreprocess = 1

\* the contents of a path changed between two calls and the later call extracted
\* afresh
C3_Witness ==
  \E c, d \in CallIds :
    /\ Returned(c) /\ Returned(d) /\ After(d, c)
    /\ calls[c].file = calls[d].file
    /\ HasTag(c) /\ HasTag(d) /\ calls[c].text # calls[d].text
    /\ calls[c].cacheWrites = 1
    /\ ~calls[d].fromCache /\ calls[d].nParse > 0 /\ calls[d].cacheWrites = 1

\* C4: a call returns null or a Document with at least one definition; a call
\* whose astDefinitions, extracted afresh or taken from the cache, hold no
\* definition returns null.
C4_NeverEmptyDocument ==
  \A c \in CallIds :
    Returned(c) =>
      /\ calls[c].result = Null \/
           (calls[c].result.kind = "Document" /\ Len(calls[c].result.definitions) > 0)
      /\ (calls[c].assigned /\ calls[c].astDefinitions = <<>>) => calls[c].result = Null

\* a call served an empty cache entry, and a call whose own extraction was empty
C4_Witness ==
  \E c, d \in CallIds :
    /\ Returned(c) /\ calls[c].fromCache /\ calls[c].astDefinitions = <<>>
    /\ calls[c].result = Null
    /\ Returned(d) /\ calls[d].cacheWrites = 1 /\ calls[d].astDefinitions = <<>>
    /\ calls[d].result = Null

\* C7: a call whose file cannot be read reports an error, fires the extraction-
\* failed notification with the path of the file, returns null, invokes neither
\* preprocessors nor parser and neither reads nor writes the cache; the cache
\* holds entries only under the keys of calls that stored one.
C7_ReadFailure ==
  /\ \A c \in CallIds :
       (Returned(c) /\ calls[c].text = Unreadable) =>
         /\ calls[c].result = Null
         /\ calls[c].log = <<Note("report.error", calls[c].file, "", ""),
                             Note("queryExtractionGraphQLError", calls[c].file, "", "")>>
         /\ calls[c].nParse = 0
         /\ calls[c].nPreprocess = 0
         /\ calls[c].cacheReads = 0
         /\ calls[c].cacheWrites = 0
  /\ DOMAIN cache = {calls[c].hash : c \in {d \in CallIds : calls[d].cacheWrites > 0}}

\* a call on an unreadable file, made when the cache held an entry
C7_Witness ==
  \E c, d \in CallIds :
    /\ Returned(c) /\ calls[c].text = Unreadable /\ calls[c].result = Null
    /\ After(c, d) /\ calls[d].cacheWrites = 1

\* C8: a call on a file that holds the tag and of which neither the text nor any
\* preprocessed candidate parses returns null and fires an extraction-failed
\* notification with the path of the file.
C8_ParseFailureNotified ==
  \A c \in CallIds :
    (Returned(c) /\ HasTag(c) /\ ~parseToAst(calls[c].file, calls[c].text, plugins).ok) =>
      /\ calls[c].result = Null
      /\ \E k \in 1..Len(calls[c].log) :
           IsFailure(calls[c].log[k]) /\ calls[c].log[k].file = calls[c].file

\* C9: a call signals extraction success, once and for its own path, exactly
\* when it returns a Document, served from the cache or not.
C9_SuccessIffDocument ==
  \A c \in CallIds :
    Returned(c) =>
      LET signals == {k \in 1..Len(calls[c].log) : IsSuccess(calls[c].log[k])}
      IN /\ Cardinality(signals) = IF calls[c].result # Null THEN 1 ELSE 0
         /\ \A k \in signals : calls[c].log[k].file = calls[c].file

\* a Document served from the cache with its success signal, after a call that
\* returned null from an extraction of its own
C9_Witness ==
  \E c, d \in CallIds :
    /\ Returned(c) /\ calls[c].fromCache /\ calls[c].result # Null
    /\ \E k \in 1..Len(calls[c].log) : IsSuccess(calls[c].log[k])
    /\ Returned(d) /\ calls[d].nParse > 0 /\ calls[d].result = Null

\* calls c and d read the same contents of the same path
SamePair(c, d) == calls[c].file = calls[d].file /\ calls[c].text = calls[d].text

\* C11: calls on the same path and contents that each ran the extraction, because
\* none found a cache entry, return the same result with the same notifications;
\* those that wrote the cache wrote the same value, and when no call on another
\* path or other contents wrote under the key, the cache entry is the value that
\* one call on its own stores.
C11_ConcurrentCallsAgree ==
  \A c, d \in CallIds :
    (/\ Returned(c) /\ Returned(d) /\ SamePair(c, d)
     /\ calls[c].nPreprocess = 1 /\ calls[d].nPreprocess = 1) =>
      /\ calls[c].result = calls[d].result
      /\ calls[c].log = calls[d].log
      /\ calls[c].cacheWrites = calls[d].cacheWrites
      /\ calls[c].astDefinitions = calls[d].astDefinitions
      /\ (/\ calls[c].cacheWrites = 1
          /\ \A e \in CallIds :
               (calls[e].cacheWrites = 1 /\ calls[e].hash = calls[c].hash) =>
                 SamePair(e, c)) =>
            cache[calls[c].hash] =
              findGraphQLTags(calls[c].file, calls[c].text, plugins).queries

\* two calls on the same path and contents both extracted a Document and both
\* wrote the cache
C11_Witness ==
  \E c, d \in CallIds :
    /\ c # d /\ Returned(c) /\ Returned(d) /\ SamePair(c, d)
    /\ calls[c].cacheWrites = 1 /\ calls[d].cacheWrites = 1
    /\ calls[c].result # Null

\* the names of a sequence of definitions
Names(defs) == [k \in 1..Len(defs) |-> defs[k].name]

\* the name is one an author gave (N is the only one of the token language), or
\* camelCase of the path followed by the hash of the text of a template
NamedFor(def, file) ==
  \/ def.name = <<"N">>
  \/ \E text \in {<<"q">>, <<"N", "q">>} :
       /\ def.isStaticQuery = "true" => text = def.text
       /\ def.name = camelCase(file) \o Digits(murmurhash(text))

\* C12: when the file of a call holds fragments, the definitions of the Document
\* the call returns, extracted by the call or served from the cache, carry the
\* names an extraction of the call's path and contents gives them on its own:
\* the name the author gave, or camelCase of the call's path followed by the hash
\* of the fragment text.
C12_NamesDeterministic ==
  \A c \in CallIds :
    (/\ Returned(c) /\ calls[c].result # Null
     /\ findGraphQLTags(calls[c].file, calls[c].text, plugins).queries # <<>>) =>
      /\ Names(calls[c].result.definitions) =
           Names(findGraphQLTags(calls[c].file, calls[c].text, plugins).queries)
      /\ \A k \in 1..Len(calls[c].result.definitions) :
           NamedFor(calls[c].result.definitions[k], calls[c].file)

\* C15: a call that ran the extraction and whose parse failed, for the text and
\* for every preprocessed candidate, or whose traversal threw, has not written
\* the cache, and a later call on the same path and contents parses again.
C15_FailedParseNotCached ==
  \A c \in CallIds :
    (/\ Returned(c) /\ calls[c].nPreprocess = 1
     /\ \/ ~parseToAst(calls[c].file, calls[c].text, plugins).ok
        \/ findGraphQLTags(calls[c].file, calls[c].text, plugins).rejected) =>
      /\ calls[c].cacheWrites = 0
      /\ \A d \in CallIds :
           (Returned(d) /\ After(d, c) /\ SamePair(d, c)) =>
             ~calls[d].fromCache /\ calls[d].nParse > 0

\* C21: a call that is served from the cache gets the definitions, names
\* included, that the extraction of its own path and contents gives, and the
\* entry it reads was stored by a call on that same path and contents.
C21_EntryOfOwnPair ==
  \A c \in CallIds :
    (Returned(c) /\ calls[c].fromCache) =>
      /\ calls[c].astDefinitions =
           findGraphQLTags(calls[c].file, calls[c].text, plugins).queries
      /\ \E e \in CallIds :
           calls[e].cacheWrites = 1 /\ calls[e].hash = calls[c].hash /\ SamePair(e, c)

(***************************************************************************)
(* Claims about parseFiles (SpecBatch).                                    *)
(***************************************************************************)
\* what parseFile returns for a file when nothing else runs and the cache is empty
Alone(file) ==
  LET found == findGraphQLTags(file, fs[file], plugins)
  IN IF fs[file] = Unreadable \/ Range(fs[file]) \cap TagTokens = {} THEN Null
     ELSE IF found.rejected \/ found.queries = <<>> THEN Null
     ELSE [kind |-> "Document", definitions |-> found.queries]

Entry(b, file) ==
  IF file \in DOMAIN batches[b].documents THEN batches[b].documents[file] ELSE Null

\* the file fails: it cannot be read, does not parse, or its traversal throws
Fails(file) ==
  \/ fs[file] = Unreadable
  \/ /\ Range(fs[file]) \cap TagTokens # {}
     /\ \/ ~parseToAst(file, fs[file], plugins).ok
        \/ findGraphQLTags(file, fs[file], plugins).rejected

\* C5: when parseFiles is the only thing the process runs, it resolves after all
\* its calls have returned, with a map that holds exactly the files whose call
\* returned a Document, each with the Document of that file, whatever the order
\* in which the calls ran.
C5_BatchMapping ==
  \A b \in 1..Len(batches) :
    (batches[b].resolved /\ \A c \in CallIds : calls[c].batch = b) =>
      /\ \A k \in 1..Len(batches[b].calls) : Returned(batches[b].calls[k])
      /\ \A k \in 1..Len(batches[b].calls) :
           Entry(b, batches[b].files[k]) = calls[batches[b].calls[k]].result
      /\ \A file \in Range(batches[b].files) : Entry(b, file) = Alone(file)

\* C6: when parseFiles is the only thing the process runs and a file of the batch
\* fails, no call is rejected, the batch resolves, and every other file has the
\* entry it has in a batch without the failing file.
C6_FailureContained ==
  \A b \in 1..Len(batches) :
    (batches[b].resolved /\ \A c \in CallIds : calls[c].batch = b) =>
      \A bad, file \in Range(batches[b].files) :
        (bad # file /\ Fails(bad) /\ ~Fails(file)) => Entry(b, file) = Alone(file)

(***************************************************************************)
(* Claims about findGraphQLTags (SpecTags).                                *)
(***************************************************************************)
\* the place of a definition in the file: its template and its start in it
Place(def) == <<def.tpl, def.loc>>

Places(defs) == {Place(defs[k]) : k \in 1..Len(defs)}

\* C10: the result of findGraphQLTags holds one definition for every place at
\* which the passes located one: no two definitions of the result share a place
\* or a locationKey, and every located place is in the result, whatever the text
\* of the definition.
C10_OneDefinitionPerPlace ==
  (tagRun.done /\ ~tagRun.out.rejected) =>
    LET result == tagRun.out.queries
    IN /\ \A i, j \in 1..Len(result) :
            i # j => /\ Place(result[i]) # Place(result[j])
                     /\ result[i].locationKey # result[j].locationKey
       /\ Places(result) = Places(tagRun.out.located)

\* a template located by two passes, whose two definitions carry the same text
C10_Witness ==
  /\ tagRun.done /\ ~tagRun.out.rejected
  /\ Len(tagRun.out.located) > Len(tagRun.out.queries)
  /\ \E i, j \in 1..Len(tagRun.out.queries) :
       /\ i # j
       /\ tagRun.out.queries[i].text = tagRun.out.queries[j].text
       /\ tagRun.out.queries[i].text # <<>>

\* the ast of the run, <<>> when nothing parsed
RunAst == parseToAst(tagRun.file, tagRun.text, tagRun.plugins).ast

\* the nodes of the ast: a query attribute / hook argument that is the bare
\* identifier Q, and the declarators (all of Q)
Sites(type) == {k \in 1..Len(RunAst) : RunAst[k].type = type /\ RunAst[k].expr = "Q"}

Declarators == {k \in 1..Len(RunAst) : RunAst[k].type = "VariableDeclarator"}

\* the warnings of the run about the identifier Q in a usage context
Warnings(usage) ==
  {k \in 1..Len(tagRun.out.log) :
     tagRun.out.log[k] = Note("warn.unknownQueryVariable", tagRun.file, "Q", usage)}

\* a visitor of the run met a template of the query tag that does not parse
MeetsBadTemplate ==
  \E k \in 1..Len(RunAst) :
    /\ RunAst[k].expr = "x"
    /\ \/ RunAst[k].type \in {"JSXElement", "CallExpression"}
       \/ RunAst[k].exported

\* C13: in a file that uses the bare identifier Q as a query source and has no
\* declarator binding Q to a template of the query tag, every such use adds no
\* fragment and gives exactly one warning naming Q, the file and the usage
\* context, and the extraction of the rest of the file goes on: the run is
\* rejected only for a template that does not parse.
C13_UnresolvedWarnsOnce ==
  (/\ tagRun.done
   /\ Sites("JSXElement") \cup Sites("CallExpression") # {}
   /\ \A k \in Declarators : RunAst[k].expr \notin TagTokens) =>
    /\ tagRun.out.rejected => MeetsBadTemplate
    /\ ~tagRun.out.rejected =>
         /\ Cardinality(Warnings("<StaticQuery>")) = Cardinality(Sites("JSXElement"))
         /\ Cardinality(Warnings("useStaticQuery")) = Cardinality(Sites("CallExpression"))
         /\ \A i \in 1..Len(tagRun.out.located), k \in Declarators :
              tagRun.out.located[i].tpl # RunAst[k].exprStart

\* C14: in a file that uses the bare identifier Q as a query source and whose
\* declarators of Q have no initializer, an initializer that is no template, or
\* a template of another tag, no declarator adds a fragment, every use gives the
\* warning of a missing binding, once, and the file does not fail: the run is
\* rejected only for a template that does not parse.
C14_NonFragmentBindingNotFound ==
  (/\ tagRun.done
   /\ Sites("JSXElement") \cup Sites("CallExpression") # {}
   /\ Declarators # {}
   /\ \A k \in Declarators : RunAst[k].expr \in {"none", "a", "o"}) =>
    /\ tagRun.out.rejected => MeetsBadTemplate
    /\ \A i \in 1..Len(tagRun.out.located), k \in Declarators :
         tagRun.out.located[i].tpl # RunAst[k].exprStart
    /\ ~tagRun.out.rejected =>
         /\ Cardinality(Warnings("<StaticQuery>")) = Cardinality(Sites("JSXElement"))
         /\ Cardinality(Warnings("useStaticQuery")) = Cardinality(Sites("CallExpression"))

\* the located definitions before which no definition has their locationKey
Firsts ==
  {i \in 1..Len(tagRun.out.located) :
     \A j \in 1..(i - 1) :
       tagRun.out.located[j].locationKey # tagRun.out.located[i].locationKey}

\* C16: the result holds, of the located definitions that share a locationKey,
\* the one located first, as it was located (kind, text, hash, name), and the
\* definitions of the result stand in the order in which they were located.
C16_FirstLocatedWins ==
  (tagRun.done /\ ~tagRun.out.rejected) =>
    /\ Len(tagRun.out.queries) = Cardinality(Firsts)
    /\ \A i \in Firsts :
         tagRun.out.queries[Cardinality({j \in Firsts : j <= i})] = tagRun.out.located[i]

\* a template located by the component pass and again by the page pass: the
\* result holds the component query, before a definition located later
C16_Witness ==
  /\ tagRun.done /\ ~tagRun.out.rejected
  /\ \E i, j \in 1..Len(tagRun.out.located) :
       /\ i < j
       /\ tagRun.out.located[i].locationKey = tagRun.out.located[j].locationKey
       /\ tagRun.out.located[i].isStaticQuery = "true"
       /\ tagRun.out.located[j].isStaticQuery = "undefined"
       /\ \E k \in 1..Len(tagRun.out.queries) :
            /\ tagRun.out.queries[k] = tagRun.out.located[i]
            /\ k < Len(tagRun.out.queries)

\* the pass that located a definition: 1 component, 2 hook, 3 page
PassOf(def) ==
  IF def.isStaticQuery = "true" THEN (IF def.isHook = "true" THEN 2 ELSE 1) ELSE 3

\* C17: in the result, and among the located definitions, every component
\* query stands before every hook query and every hook query before every page
\* query, wherever the fragments stand in the file.
C17_PassOrder ==
  (tagRun.done /\ ~tagRun.out.rejected) =>
    /\ \A i, j \in 1..Len(tagRun.out.queries) :
         i < j => PassOf(tagRun.out.queries[i]) <= PassOf(tagRun.out.queries[j])
    /\ \A i, j \in 1..Len(tagRun.out.located) :
         i < j => PassOf(tagRun.out.located[i]) <= PassOf(tagRun.out.located[j])

\* a file whose page query stands before its hook and its component: the result
\* holds the component query, then the hook query, then the page query
C17_Witness ==
  /\ tagRun.done /\ ~tagRun.out.rejected
  /\ Len(tagRun.out.queries) = 3
  /\ [k \in 1..3 |-> PassOf(tagRun.out.queries[k])] = <<1, 2, 3>>
  /\ tagRun.out.queries[3].tpl < tagRun.out.queries[2].tpl
  /\ tagRun.out.queries[2].tpl < tagRun.out.queries[1].tpl

\* the templates of the bare-global form from which the run located a definition
GlobalUses ==
  {k \in 1..Len(RunAst) :
     /\ RunAst[k].expr = "g"
     /\ \E i \in 1..Len(tagRun.out.located) :
          tagRun.out.located[i].tpl = RunAst[k].exprStart}

GlobalWarnings ==
  {k \in 1..Len(tagRun.out.log) :
     tagRun.out.log[k] = Note("warn.globalTag", tagRun.file, "", "")}

\* C18: a run gives one deprecated-usage warning naming the file for every
\* template of the bare-global form it extracts from, however many passes or
\* identifier lookups reach the template, and the definition of every such
\* template is in the result.
C18_OneGlobalWarningPerUse ==
  (tagRun.done /\ ~tagRun.out.rejected) =>
    /\ Cardinality(GlobalWarnings) = Cardinality(GlobalUses)
    /\ \A k \in GlobalUses :
         \E i \in 1..Len(tagRun.out.queries) :
           tagRun.out.queries[i].tpl = RunAst[k].exprStart

(***************************************************************************)
(* Claims about the autosave (SpecSave, SpecSaveFair).                     *)
(***************************************************************************)
\* C19: in develop mode, when an event is emitted after the listeners have heard
\* BOOTSTRAP_FINISHED, a save of all dbs starts at some later moment.
C19_EventEventuallySaved == db.dirty ~> ~db.dirty

\* C20: a save has started only if BOOTSTRAP_FINISHED has been emitted, and the
\* debounce timer is armed only then; in build mode every save was started by
\* the listener of BOOTSTRAP_FINISHED and the timer is never armed; under any
\* other command no save starts.
C20_NoSaveBeforeBootstrap ==
  /\ (db.round > 0 \/ db.pending # {} \/ db.timer \/ db.saveInProgress) =>
       db.bootstrapEmitted
  /\ db.command = "build" => (db.causes \subseteq {"BOOTSTRAP_FINISHED"} /\ ~db.timer)
  /\ db.command \notin {"develop", "build"} => (db.round = 0 /\ ~db.timer)

\* in develop mode the listeners heard an event before BOOTSTRAP_FINISHED, and
\* saves have started since, by the listener of BOOTSTRAP_FINISHED and by the
\* timer
C20_Witness ==
  /\ db.command = "develop"
  /\ db.early > 0
  /\ db.causes = {"BOOTSTRAP_FINISHED", "debounce"}
  /\ db.round = 2

\* C22: no db has two saves running at the same moment, every running save
\* belongs to the one saveState run that is awaiting the dbs, and a call of
\* saveState made meanwhile has started none.
C22_OneSaveAtATime ==
  /\ \A p, q \in db.pending : p[2] = q[2] => p = q
  /\ \A p \in db.pending : p[1] = db.round
  /\ db.saveInProgress => db.pending # {}

\* C23: while saveInProgress is set a db.saveState promise of the awaited run
\* is still to settle, and the flag is reset when the run ends, also by a
\* rejection; so a save that fails leaves the next call free to save.
C23_FailureResetsFlag ==
  /\ [](db.saveInProgress => \E p \in db.pending : p[1] = db.round)
  /\ db.saveInProgress ~> ~db.saveInProgress

\* a save failed, by a rejection and by a throw, the warnings were reported,
\* and a later call of saveState has started a save
C23_Witness ==
  /\ db.caught = {"throw", "rejection"}
  /\ db.warnings = 2
  /\ db.saveInProgress
  /\ db.round = 3

====
